---- MODULE Spec2Model ----
(***************************************************************************)
(* Model of src/App.tsx: the RTVIApp component's local view state          *)
(* (messages, uploadedFiles, feature flags, analytics), the FileUploader    *)
(* intake (processFile / FileReader) and the handlers that call             *)
(* client.action(...).  Every `await client.action(...)` is a suspension    *)
(* point: the part of a handler before it is one step, the promise's        *)
(* settlement by the client library is a step of the environment, and the   *)
(* rest of the handler (the code after the await, or its catch block) is    *)
(* one step (its setters are one batched update).  client.action itself    *)
(* belongs to the client library: the model lets it resolve or reject in    *)
(* any phase.  Timestamps (new Date().toISOString()), the console lines of  *)
(* the catch blocks, and the chat visibility (showChat) are not modelled.   *)
(* Of the tab (activeTab) the model keeps what carries state: every handler *)
(* can be reached under some tab, and a tab change unmounts the             *)
(* FileUploader, whose `uploading` flag belongs to the mounted instance (a  *)
(* new instance starts with false) while the reads it started go on.        *)
(* lastEnabled and lastLifecycle record what was last asked of the client   *)
(* (the 'enabled' argument of toggle_sharing, connect() / disconnect());    *)
(* no handler reads them.                                                   *)
(***************************************************************************)
EXTENDS Integers, Sequences, FiniteSets, Bags, TLC

\* ---------------------------------------------------------------- bounds
\* Total number of client.action calls issued in one behaviour.
MaxCalls == 2

\* Number of toggle_sharing calls issued in one behaviour of the screen-share
\* handler taken on its own.
MaxToggles == 3

\* Number of files in one FileList handed to handleFileSelect.
MaxSelect == MaxCalls

\* ------------------------------------------------------------- constants
\* CONFIG.maxFileSize
maxFileSize == 50 * 1024 * 1024

\* CONFIG.allowedFileTypes = ['image/*', 'application/pdf', '.docx', '.txt']:
\* the MIME types these patterns admit, among those a File may carry here.
\* The list is used once, as the accept attribute of the file input.
allowedFileTypes ==
    {"image/png", "image/jpeg", "application/pdf", "text/plain",
     "application/vnd.openxmlformats-officedocument.wordprocessingml.document"}

\* The values useRTVIClientTransportState() may report (spec section 3).
Phases == {"disconnected", "connecting", "connected", "ready", "disconnecting", "error"}

\* RTVIProvider always constructs a client and provides it: useRTVIClient()
\* never yields undefined inside RTVIApp.
client == TRUE

\* const isConnected = ['connected', 'ready'].includes(transportState)
isConnected(phase) == phase \in {"connected", "ready"}

\* alert(...) texts
TooLargeAlert == "File too large. Max size: 50MB"
ReadFailedAlert == "Failed to read file"
ConnectFirstAlert == "Please connect first"

\* ---------------------------------------------------------------- inputs
\* The File objects a user may pick or drop: name, MIME type, size in bytes.
Files ==
    {[name |-> "photo.png", type |-> "image/png", size |-> maxFileSize],
     [name |-> "photo.png", type |-> "image/png", size |-> maxFileSize + 1],
     [name |-> "tool.exe", type |-> "application/x-msdownload", size |-> 1024],
     [name |-> "tool.exe", type |-> "application/x-msdownload", size |-> 60 * 1024 * 1024]}

\* The FileLists one change / drop event may carry.
Selections == UNION {[1..n -> Files] : n \in 1..MaxSelect}

\* The texts ChatPanel.handleSend passes on (textMessage.trim() is non-empty).
Texts == {"hello"}

\* ----------------------------------------------------------------- state
VARIABLES
    transportState,   \* useRTVIClientTransportState()
    messages,         \* useState<Message[]>([])
    uploadedFiles,    \* useState<FileData[]>([])
    isScreenSharing,  \* useState(false)
    isMicEnabled,     \* useState(true)
    isCameraEnabled,  \* useState(false)
    analytics,        \* useState<Analytics>({0,0,0,0})
    uploading,        \* FileUploader: useState(false), of the mounted instance
    reads,            \* bag of the readAsDataURL not yet completed: the File, and
                      \* whether the FileUploader that started it is still mounted
    calls,            \* bag of the client.action promises whose handler has not resumed
    nActions,         \* number of client.action calls issued so far
    alerts,           \* the alert(...) dialogs raised and not yet dismissed
    lastEnabled,      \* <<'enabled' argument>> of the latest toggle_sharing call, or <<>>
    lastLifecycle     \* the latest of client.connect() / client.disconnect(), or "none"

vars == <<transportState, messages, uploadedFiles, isScreenSharing, isMicEnabled,
          isCameraEnabled, analytics, uploading, reads, calls, nActions, alerts,
          lastEnabled, lastLifecycle>>

\* --------------------------------------------------------------- helpers
\* { sender, content, type } of a Message; content is the template's pieces
Message(sender, content, type) == [sender |-> sender, content |-> content, type |-> type]

\* the welcome message of the mount effect
WelcomeMessage ==
    Message("system", <<"Welcome! Connect to start your multi-modal AI conversation.">>, "system")

\* reader.readAsDataURL(file): "data:<type>;base64,<payload>", kept as the
\* pieces that result.split(',') yields
readAsDataURL(file) == <<<<"data:", file.type, ";base64">>, <<"base64-of", file.name, file.size>>>>

\* the FileData built in reader.onload
FileDataOf(file) ==
    [name |-> file.name, type |-> file.type, size |-> file.size,
     data |-> readAsDataURL(file)[2]]

\* a client.action(...) promise not yet settled: the request, the handler
\* awaiting it and what that handler captured; overdue tells whether the
\* response has been outstanding for longer than the timeout window of the
\* specification (spec section 4), which no handler reads
Call(handler, service, action, arg) ==
    [handler |-> handler, service |-> service, action |-> action, arg |-> arg,
     overdue |-> FALSE]

\* a bag with one more / one fewer copy of x
BagAdd(bag, x) == bag (+) SetToBag({x})
BagRemove(bag, x) == bag (-) SetToBag({x})

Init ==
    /\ transportState = "disconnected"
    /\ messages = <<>>
    /\ uploadedFiles = <<>>
    /\ isScreenSharing = FALSE
    /\ isMicEnabled = TRUE
    /\ isCameraEnabled = FALSE
    /\ analytics = [totalMessages |-> 0, filesProcessed |-> 0,
                    voiceMessages |-> 0, textMessages |-> 0]
    /\ uploading = FALSE
    /\ reads = EmptyBag
    /\ calls = EmptyBag
    /\ nActions = 0
    /\ alerts = <<>>
    /\ lastEnabled = <<>>
    /\ lastLifecycle = "none"

\* alert() is modal: it blocks the event loop until the user dismisses it,
\* so no handler, effect or continuation runs while a dialog is open.
NoDialog == alerts = <<>>

\* The user dismisses the open dialogs.
DismissAlerts ==
    /\ alerts # <<>>
    /\ alerts' = <<>>
    /\ UNCHANGED <<transportState, messages, uploadedFiles, isScreenSharing, isMicEnabled,
                   isCameraEnabled, analytics, uploading, reads, calls, nActions,
                   lastEnabled, lastLifecycle>>

\* ------------------------------------------------------------ transport
\* The transport reports a new lifecycle phase.
TransportEvent(p) ==
    /\ NoDialog
    /\ p # transportState
    /\ transportState' = p
    /\ UNCHANGED <<messages, uploadedFiles, isScreenSharing, isMicEnabled, isCameraEnabled,
                   analytics, uploading, reads, calls, nActions, alerts,
                   lastEnabled, lastLifecycle>>

\* a ConnectionStatus whose button is never disabled
isConnectingNever(phase) == FALSE

\* const isConnecting = ['connecting'].includes(transportState)
isConnecting(phase) == phase \in {"connecting"}

\* onConnect={() => client?.connect()}
onConnect == lastLifecycle' = IF client THEN "connect" ELSE lastLifecycle

\* onDisconnect={() => client?.disconnect()}
onDisconnect == lastLifecycle' = IF client THEN "disconnect" ELSE lastLifecycle

\* The user clicks the button of ConnectionStatus:
\*   onClick={isConnected ? onDisconnect : onConnect}  disabled={isConnecting}
ConnectionStatusClick ==
    /\ NoDialog
    /\ ~isConnecting(transportState)
    /\ IF isConnected(transportState) THEN onDisconnect ELSE onConnect
    /\ UNCHANGED <<transportState, messages, uploadedFiles, isScreenSharing, isMicEnabled,
                   isCameraEnabled, analytics, uploading, reads, calls, nActions, alerts,
                   lastEnabled>>

\* an updater that drops the previous entries: setMessages([m])
appendMessageReplacing(prev, m) == <<m>>

\* setMessages(prev => [...prev, m])
appendMessage(prev, m) == Append(prev, m)

\* --------------------------------------------------------- mount effect
\* useEffect(() => { if (messages.length === 0) setMessages([welcome]) })
WelcomeEffect ==
    /\ NoDialog
    /\ Len(messages) = 0
    /\ messages' = <<WelcomeMessage>>
    /\ UNCHANGED <<transportState, uploadedFiles, isScreenSharing, isMicEnabled,
                   isCameraEnabled, analytics, uploading, reads, calls, nActions, alerts,
                   lastEnabled, lastLifecycle>>

\* ------------------------------------------------------- feature toggles
\* onClick={() => setIsMicEnabled(!isMicEnabled)}
ToggleMic ==
    /\ NoDialog
    /\ isMicEnabled' = ~isMicEnabled
    /\ UNCHANGED <<transportState, messages, uploadedFiles, isScreenSharing, isCameraEnabled,
                   analytics, uploading, reads, calls, nActions, alerts,
                   lastEnabled, lastLifecycle>>

\* onClick={() => setIsCameraEnabled(!isCameraEnabled)}
ToggleCamera ==
    /\ NoDialog
    /\ isCameraEnabled' = ~isCameraEnabled
    /\ UNCHANGED <<transportState, messages, uploadedFiles, isScreenSharing, isMicEnabled,
                   analytics, uploading, reads, calls, nActions, alerts,
                   lastEnabled, lastLifecycle>>

\* --------------------------------------------------------- the gateway
\* The head of every handler:
\*   try { if (!client) { alert('Please connect first'); return; }
\*         await client.action({ service, action, arguments }) ...
\* handleRefreshAnalytics returns without the alert (silent).
Dispatch(handler, service, action, arg, silent) ==
    IF ~client
    THEN /\ alerts' = IF silent THEN <<>> ELSE <<ConnectFirstAlert>>
         /\ UNCHANGED <<calls, nActions>>
    ELSE /\ calls' = BagAdd(calls, Call(handler, service, action, arg))
         /\ nActions' = nActions + 1
         /\ alerts' = <<>>

\* await client.action(...) of call c ends: the client library settles the
\* promise, in any phase and in any order among the calls in flight, and the
\* handler that awaits it resumes (after the await when the promise
\* resolved, in its catch block when it rejected).
Settles(c, handler) ==
    /\ NoDialog
    /\ BagIn(c, calls)
    /\ c.handler = handler

\* Time passes while `await client.action(...)` of call c is pending, beyond
\* the timeout window: the handlers arm no timer and CONFIG has no timeout,
\* so nothing runs; the call is merely overdue from now on.
TimeoutElapses(c) ==
    /\ BagIn(c, calls)
    /\ ~c.overdue
    /\ calls' = BagAdd(BagRemove(calls, c), [c EXCEPT !.overdue = TRUE])
    /\ UNCHANGED <<transportState, messages, uploadedFiles, isScreenSharing, isMicEnabled,
                   isCameraEnabled, analytics, uploading, reads, nActions, alerts,
                   lastEnabled, lastLifecycle>>

\* ---------------------------------------------------------- file intake
\* reader.readAsDataURL(file) in progress, started by the mounted FileUploader
Read(file) == [file |-> file, mounted |-> TRUE]

\* the reads in progress once the FileUploader that started them is unmounted
Unmounted(bag) ==
    [r \in {[x EXCEPT !.mounted = FALSE] : x \in BagToSet(bag)} |->
        CopiesIn(r, bag) + CopiesIn([r EXCEPT !.mounted = TRUE], bag)]

\* onClick={() => setActiveTab(tab.id)} taking the page away from the files
\* tab: {activeTab === 'files' && <FileUploader .../>} unmounts the
\* FileUploader, and the instance mounted on return has uploading = false.
setActiveTab ==
    /\ NoDialog
    /\ uploading \/ \E r \in BagToSet(reads) : r.mounted
    /\ uploading' = FALSE
    /\ reads' = Unmounted(reads)
    /\ UNCHANGED <<transportState, messages, uploadedFiles, isScreenSharing, isMicEnabled,
                   isCameraEnabled, analytics, calls, nActions, alerts,
                   lastEnabled, lastLifecycle>>

\* The FileUploader state processFile acts on.
UploaderState == [uploading |-> uploading, reads |-> reads, alerts |-> alerts]

\* processFile with the size check written >=
processFileRejectingAtLimit(u, file) ==
    IF file.size >= maxFileSize
    THEN [u EXCEPT !.alerts = Append(@, TooLargeAlert)]
    ELSE [u EXCEPT !.uploading = TRUE, !.reads = BagAdd(@, Read(file))]

\* processFile(file): the size check, then setUploading(true) and
\* reader.readAsDataURL(file)
processFile(u, file) ==
    IF file.size > maxFileSize
    THEN [u EXCEPT !.alerts = Append(@, TooLargeAlert)]
    ELSE [u EXCEPT !.uploading = TRUE, !.reads = BagAdd(@, Read(file))]

\* Array.from(files).forEach(processFile)
RECURSIVE forEachProcessFile(_, _)
forEachProcessFile(u, files) ==
    IF files = <<>> THEN u
    ELSE forEachProcessFile(processFile(u, Head(files)), Tail(files))

\* handleFileSelect(files), from the input's onChange or from handleDrop.
\* While uploading the drop zone is 'opacity-50 pointer-events-none': neither
\* a drop nor the click that opens the file dialog reaches it.
handleFileSelect(files) ==
    LET u == forEachProcessFile(UploaderState, files) IN
    /\ NoDialog
    /\ ~uploading
    /\ UNCHANGED <<transportState, messages, uploadedFiles, isScreenSharing, isMicEnabled,
                   isCameraEnabled, analytics, calls, nActions, lastEnabled, lastLifecycle>>
    /\ nActions + BagCardinality(u.reads) <= MaxCalls
    /\ uploading' = u.uploading
    /\ reads' = u.reads
    /\ alerts' = u.alerts

\* reader.onload of a pending read r: build the FileData, onFileUpload(fileData)
\* up to its await (handleFileUpload's head), setUploading(false), which
\* does nothing when the FileUploader that started the read is unmounted
ReaderOnload(r) ==
    /\ NoDialog
    /\ BagIn(r, reads)
    /\ Dispatch("handleFileUpload", "file_processor", "upload_file", FileDataOf(r.file), FALSE)
    /\ uploading' = IF r.mounted THEN FALSE ELSE uploading
    /\ reads' = BagRemove(reads, r)
    /\ UNCHANGED <<transportState, messages, uploadedFiles, isScreenSharing, isMicEnabled,
                   isCameraEnabled, analytics, lastEnabled, lastLifecycle>>

\* reader.onerror of a pending read r: the alert and setUploading(false)
ReaderOnerror(r) ==
    /\ NoDialog
    /\ BagIn(r, reads)
    /\ alerts' = <<ReadFailedAlert>>
    /\ uploading' = IF r.mounted THEN FALSE ELSE uploading
    /\ reads' = BagRemove(reads, r)
    /\ UNCHANGED <<transportState, messages, uploadedFiles, isScreenSharing, isMicEnabled,
                   isCameraEnabled, analytics, calls, nActions, lastEnabled, lastLifecycle>>

\* an upload updater that also counts the upload note as a message
uploadAnalyticsCountingMessage(prev) ==
    [prev EXCEPT !.filesProcessed = @ + 1, !.totalMessages = @ + 1]

\* setAnalytics(prev => ({...prev, filesProcessed: prev.filesProcessed + 1}))
uploadAnalytics(prev) == [prev EXCEPT !.filesProcessed = @ + 1]

\* handleFileUpload that retains the file whatever the outcome
handleFileUploadResumeRetaining(c, ok) ==
    /\ Settles(c, "handleFileUpload")
    /\ uploadedFiles' = Append(uploadedFiles, c.arg)
    /\ analytics' = uploadAnalytics(analytics)
    /\ IF ok
       THEN messages' = appendMessage(messages,
                Message("system", <<"File uploaded: ", c.arg.name>>, "system"))
       ELSE messages' = appendMessage(messages,
                Message("system", <<"Failed to upload ", c.arg.name>>, "system"))
    /\ calls' = BagRemove(calls, c)
    /\ UNCHANGED <<transportState, isScreenSharing, isMicEnabled, isCameraEnabled,
                   uploading, reads, nActions, alerts, lastEnabled, lastLifecycle>>

\* handleFileUpload whose catch block only writes to the console
handleFileUploadResumeSilent(c, ok) ==
    /\ Settles(c, "handleFileUpload")
    /\ IF ok
       THEN /\ uploadedFiles' = Append(uploadedFiles, c.arg)
            /\ messages' = appendMessage(messages,
                   Message("system", <<"File uploaded: ", c.arg.name>>, "system"))
            /\ analytics' = uploadAnalytics(analytics)
       ELSE UNCHANGED <<messages, uploadedFiles, analytics>>
    /\ calls' = BagRemove(calls, c)
    /\ UNCHANGED <<transportState, isScreenSharing, isMicEnabled, isCameraEnabled,
                   uploading, reads, nActions, alerts, lastEnabled, lastLifecycle>>

\* handleFileUpload whose updaters do not read the previous value of the
\* collection: setUploadedFiles([fileData])
handleFileUploadResumeLosing(c, ok) ==
    /\ Settles(c, "handleFileUpload")
    /\ IF ok
       THEN /\ uploadedFiles' = <<c.arg>>
            /\ messages' = appendMessage(messages,
                   Message("system", <<"File uploaded: ", c.arg.name>>, "system"))
            /\ analytics' = uploadAnalytics(analytics)
       ELSE /\ messages' = appendMessage(messages,
                   Message("system", <<"Failed to upload ", c.arg.name>>, "system"))
            /\ UNCHANGED <<uploadedFiles, analytics>>
    /\ calls' = BagRemove(calls, c)
    /\ UNCHANGED <<transportState, isScreenSharing, isMicEnabled, isCameraEnabled,
                   uploading, reads, nActions, alerts, lastEnabled, lastLifecycle>>

\* handleFileUpload after its await: the three setters, or the catch block
handleFileUploadResume(c, ok) ==
    /\ Settles(c, "handleFileUpload")
    /\ IF ok
       THEN /\ uploadedFiles' = Append(uploadedFiles, c.arg)
            /\ messages' = appendMessage(messages,
                   Message("system", <<"File uploaded: ", c.arg.name>>, "system"))
            /\ analytics' = uploadAnalytics(analytics)
       ELSE /\ messages' = appendMessage(messages,
                   Message("system", <<"Failed to upload ", c.arg.name>>, "system"))
            /\ UNCHANGED <<uploadedFiles, analytics>>
    /\ calls' = BagRemove(calls, c)
    /\ UNCHANGED <<transportState, isScreenSharing, isMicEnabled, isCameraEnabled,
                   uploading, reads, nActions, alerts, lastEnabled, lastLifecycle>>

\* ----------------------------------------------------------------- chat
\* handleSendMessage(message) up to its await
handleSendMessage(message) ==
    /\ NoDialog
    /\ nActions + BagCardinality(reads) < MaxCalls
    /\ Dispatch("handleSendMessage", "chat", "send_text", message, FALSE)
    /\ UNCHANGED <<transportState, messages, uploadedFiles, isScreenSharing, isMicEnabled,
                   isCameraEnabled, analytics, uploading, reads, lastEnabled, lastLifecycle>>

\* a send updater that forgets textMessages
sendAnalyticsTotalOnly(prev) == [prev EXCEPT !.totalMessages = @ + 1]

\* setAnalytics(prev => ({...prev, totalMessages: prev.totalMessages + 1,
\*                                 textMessages: prev.textMessages + 1}))
sendAnalytics(prev) == [prev EXCEPT !.totalMessages = @ + 1, !.textMessages = @ + 1]

\* handleSendMessage after its await: the two setters, or the catch block
handleSendMessageResume(c, ok) ==
    /\ Settles(c, "handleSendMessage")
    /\ IF ok
       THEN /\ messages' = appendMessage(messages, Message("user", <<c.arg>>, "text"))
            /\ analytics' = sendAnalytics(analytics)
       ELSE UNCHANGED <<messages, analytics>>
    /\ calls' = BagRemove(calls, c)
    /\ UNCHANGED <<transportState, uploadedFiles, isScreenSharing, isMicEnabled,
                   isCameraEnabled, uploading, reads, nActions, alerts,
                   lastEnabled, lastLifecycle>>

\* --------------------------------------------------------- screen share
\* handleScreenShareToggle() up to its await: newState = !isScreenSharing is
\* captured and sent as the 'enabled' argument
handleScreenShareToggleWithin(limit) ==
    /\ NoDialog
    /\ nActions + BagCardinality(reads) < limit
    /\ Dispatch("handleScreenShareToggle", "screen", "toggle_sharing", ~isScreenSharing, FALSE)
    /\ lastEnabled' = <<~isScreenSharing>>
    /\ UNCHANGED <<transportState, messages, uploadedFiles, isScreenSharing, isMicEnabled,
                   isCameraEnabled, analytics, uploading, reads, lastLifecycle>>

\* handleScreenShareToggle(), within the budget of calls of the whole component
handleScreenShareToggle == handleScreenShareToggleWithin(MaxCalls)

\* handleScreenShareToggle after its await: setIsScreenSharing(newState) and
\* the system note, or the catch block
handleScreenShareToggleResume(c, ok) ==
    /\ Settles(c, "handleScreenShareToggle")
    /\ IF ok
       THEN /\ isScreenSharing' = c.arg
            /\ messages' = appendMessage(messages,
                   Message("system",
                           <<"Screen sharing ", IF c.arg THEN "started" ELSE "stopped">>,
                           "system"))
       ELSE UNCHANGED <<isScreenSharing, messages>>
    /\ calls' = BagRemove(calls, c)
    /\ UNCHANGED <<transportState, uploadedFiles, isMicEnabled, isCameraEnabled,
                   analytics, uploading, reads, nActions, alerts, lastEnabled, lastLifecycle>>

\* -------------------------------------------------------- file analysis
\* handleAnalyzeFile(file) up to its await; file is the i-th uploaded file,
\* whose Analyze button was clicked
handleAnalyzeFile(i) ==
    /\ NoDialog
    /\ i \in 1..Len(uploadedFiles)
    /\ nActions + BagCardinality(reads) < MaxCalls
    /\ Dispatch("handleAnalyzeFile", "analysis", "analyze_content",
                [content_type |-> "file",
                 data |-> [filename |-> uploadedFiles[i].name, type |-> uploadedFiles[i].type]],
                FALSE)
    /\ UNCHANGED <<transportState, messages, uploadedFiles, isScreenSharing, isMicEnabled,
                   isCameraEnabled, analytics, uploading, reads, lastEnabled, lastLifecycle>>

\* handleAnalyzeFile after its await: the system note, or the catch block
handleAnalyzeFileResume(c, ok) ==
    /\ Settles(c, "handleAnalyzeFile")
    /\ IF ok
       THEN messages' = appendMessage(messages,
                Message("system", <<"Analyzing file: ", c.arg.data.filename>>, "system"))
       ELSE UNCHANGED messages
    /\ calls' = BagRemove(calls, c)
    /\ UNCHANGED <<transportState, uploadedFiles, isScreenSharing, isMicEnabled,
                   isCameraEnabled, analytics, uploading, reads, nActions, alerts,
                   lastEnabled, lastLifecycle>>

\* ---------------------------------------------------- analytics refresh
\* handleRefreshAnalytics() up to its await
handleRefreshAnalytics ==
    /\ NoDialog
    /\ nActions + BagCardinality(reads) < MaxCalls
    /\ Dispatch("handleRefreshAnalytics", "analysis", "analyze_content",
                [content_type |-> "conversation", data |-> <<>>], TRUE)
    /\ UNCHANGED <<transportState, messages, uploadedFiles, isScreenSharing, isMicEnabled,
                   isCameraEnabled, analytics, uploading, reads, lastEnabled, lastLifecycle>>

\* handleRefreshAnalytics after its await: console.log of the result, or the
\* catch block's console.error; no state is set on either path
handleRefreshAnalyticsResume(c, ok) ==
    /\ Settles(c, "handleRefreshAnalytics")
    /\ calls' = BagRemove(calls, c)
    /\ UNCHANGED <<transportState, messages, uploadedFiles, isScreenSharing, isMicEnabled,
                   isCameraEnabled, analytics, uploading, reads, nActions, alerts,
                   lastEnabled, lastLifecycle>>

\* --------------------------------------------------------- specification
\* The file intake pipeline on its own: the mount effect, the FileUploader
\* (selection, reads, remount, dialogs) and handleFileUpload.  No other
\* handler reads or writes the uploader's state.
NextIntake ==
    \/ DismissAlerts
    \/ WelcomeEffect
    \/ \E files \in Selections : handleFileSelect(files)
    \/ setActiveTab
    \/ \E r \in BagToSet(reads) : ReaderOnload(r)
    \/ \E r \in BagToSet(reads) : ReaderOnerror(r)
    \/ \E c \in BagToSet(calls), ok \in BOOLEAN : handleFileUploadResume(c, ok)

SpecIntake == Init /\ [][NextIntake]_vars

\* The handlers of RTVIApp that call client.action, with the file intake:
\* every step that reads or writes the log, the retained files, the counters
\* or the calls in flight.
NextHandlers ==
    \/ NextIntake
    \/ \E m \in Texts : handleSendMessage(m)
    \/ \E c \in BagToSet(calls), ok \in BOOLEAN : handleSendMessageResume(c, ok)
    \/ handleScreenShareToggle
    \/ \E c \in BagToSet(calls), ok \in BOOLEAN : handleScreenShareToggleResume(c, ok)
    \/ \E i \in 1..MaxCalls : handleAnalyzeFile(i)
    \/ \E c \in BagToSet(calls), ok \in BOOLEAN : handleAnalyzeFileResume(c, ok)
    \/ handleRefreshAnalytics
    \/ \E c \in BagToSet(calls), ok \in BOOLEAN : handleRefreshAnalyticsResume(c, ok)

\* The handlers without the header and the media buttons, whose steps change
\* transportState, lastLifecycle, isMicEnabled and isCameraEnabled only; no
\* step of NextHandlers reads these four.
SpecHandlers == Init /\ [][NextHandlers]_vars

\* The whole page.
Next ==
    \/ NextHandlers
    \/ \E p \in Phases : TransportEvent(p)
    \/ ConnectionStatusClick
    \/ ToggleMic
    \/ ToggleCamera

Spec == Init /\ [][Next]_vars

\* The two handlers whose calls may stay unanswered for long, file upload and
\* screen share, with the passing of time made explicit.
NextTimeout ==
    \/ NextIntake
    \/ handleScreenShareToggle
    \/ \E c \in BagToSet(calls), ok \in BOOLEAN : handleScreenShareToggleResume(c, ok)
    \/ \E c \in BagToSet(calls) : TimeoutElapses(c)

SpecTimeout == Init /\ [][NextTimeout]_vars

\* The media controls on their own: the microphone and camera buttons and
\* the screen-share handler, up to MaxToggles invocations of it, which may
\* overlap, with their calls settling in any order.
NextToggles ==
    \/ WelcomeEffect
    \/ ToggleMic
    \/ ToggleCamera
    \/ handleScreenShareToggleWithin(MaxToggles)
    \/ \E c \in BagToSet(calls), ok \in BOOLEAN : handleScreenShareToggleResume(c, ok)

SpecToggles == Init /\ [][NextToggles]_vars

\* The header of the page: the ConnectionStatus component, fed by the
\* transport's phase, next to the mount effect and the media buttons.  The
\* button reads transportState only, and no handler reads what it requests.
NextConnection ==
    \/ \E p \in Phases : TransportEvent(p)
    \/ ConnectionStatusClick
    \/ WelcomeEffect
    \/ ToggleMic
    \/ ToggleCamera

SpecConnection == Init /\ [][NextConnection]_vars

\* ---------------------------------------------------------------- claims
\* number of entries of the log whose type is in types
CountLog(types) == Cardinality({i \in DOMAIN messages : messages[i].type \in types})

\* number of calls in flight
InFlight == BagCardinality(calls)

\* the step appends exactly one message, with sender 'system'
AppendsSystemMessage ==
    /\ Len(messages') = Len(messages) + 1
    /\ SubSeq(messages', 1, Len(messages)) = messages
    /\ messages'[Len(messages')].sender = "system"

\* C1: a remote action call is issued only while the session phase is
\* 'connected' or 'ready'; a handler invoked in any other phase issues no
\* call on the channel.
C1_DispatchOnlyWhenUsable ==
    [][InFlight' > InFlight => isConnected(transportState)]_vars

\* C2: a selected file larger than maxFileSize is rejected with the too-large
\* notice before any read: no read of it starts, no call is made, the log,
\* the retained files and the counters are unchanged; a file of at most
\* maxFileSize bytes (exactly maxFileSize included) is read.
C2_TooLargeRejected ==
    [][\A sel \in Selections : handleFileSelect(sel) =>
          /\ UNCHANGED <<calls, nActions, messages, uploadedFiles, analytics>>
          /\ \A f \in Files :
                CopiesIn(Read(f), reads') = CopiesIn(Read(f), reads) +
                    (IF f.size > maxFileSize THEN 0
                     ELSE Cardinality({i \in DOMAIN sel : sel[i] = f}))
          /\ \A r \in BagToSet(reads') : r.file \in Files
          /\ \A f \in Files :
                CopiesIn([Read(f) EXCEPT !.mounted = FALSE], reads') =
                CopiesIn([Read(f) EXCEPT !.mounted = FALSE], reads)
          /\ Len(alerts') = Cardinality({i \in DOMAIN sel : sel[i].size > maxFileSize})
          /\ \A i \in DOMAIN alerts' : alerts'[i] = TooLargeAlert]_vars

\* C2 witness: a selection held a file of maxFileSize + 1 bytes, which was
\* rejected, and a file of exactly maxFileSize bytes, which is being read.
C2_Witness ==
    /\ alerts = <<TooLargeAlert>>
    /\ \E r \in BagToSet(reads) : r.file.size = maxFileSize

\* C3: when the remote call of a toggle fails, the flag, once the toggle has
\* settled, equals the value it had immediately before the toggle was
\* invoked (the negation of the captured newState).
C3_FailedToggleRestoresFlag ==
    [][\A c \in BagToSet(calls) :
          handleScreenShareToggleResume(c, FALSE) => isScreenSharing' = ~c.arg]_vars

\* C4: every toggle flips its flag in the step that issues its remote call:
\* no flag changes without a call being issued, and the call of a toggle is
\* issued with the flag already flipped.
C4_OptimisticToggle ==
    [][/\ isMicEnabled' # isMicEnabled => InFlight' = InFlight + 1
       /\ isCameraEnabled' # isCameraEnabled => InFlight' = InFlight + 1
       /\ isScreenSharing' # isScreenSharing => InFlight' = InFlight + 1
       /\ handleScreenShareToggle => isScreenSharing' = ~isScreenSharing]_vars

\* C5: whenever the remote call of a toggle fails, a message with sender
\* 'system' is appended to the log.
C5_FailedToggleLogged ==
    [][\A c \in BagToSet(calls) :
          handleScreenShareToggleResume(c, FALSE) => AppendsSystemMessage]_vars

\* a handler resumes in its catch block: the dispatch c was rejected
RejectedDispatch(c) ==
    \/ handleFileUploadResume(c, FALSE)
    \/ handleSendMessageResume(c, FALSE)
    \/ handleScreenShareToggleResume(c, FALSE)
    \/ handleAnalyzeFileResume(c, FALSE)
    \/ handleRefreshAnalyticsResume(c, FALSE)

\* C6: every rejected dispatch has a user-visible outcome: a system entry
\* appended to the log, or a notice.
C6_NoSilentFailure ==
    [][\A c \in BagToSet(calls) :
          RejectedDispatch(c) => AppendsSystemMessage \/ alerts' # <<>>]_vars

\* C7: totalMessages = textMessages + voiceMessages in every reachable state.
C7_TotalIsTextPlusVoice ==
    analytics.totalMessages = analytics.textMessages + analytics.voiceMessages

\* C7 witness: a text message was sent and a file uploaded (both counters moved).
C7_Witness ==
    /\ analytics.totalMessages = 1
    /\ analytics.filesProcessed = 1

\* C8: the counters are a cache of the logs: textMessages and voiceMessages
\* count the log's text and voice entries, totalMessages its non-system
\* entries, and filesProcessed is the size of the retained file collection.
C8_CountersMatchLogs ==
    /\ analytics.textMessages = CountLog({"text"})
    /\ analytics.voiceMessages = CountLog({"voice"})
    /\ analytics.totalMessages = CountLog({"text", "voice"})
    /\ analytics.filesProcessed = Len(uploadedFiles)

\* C8 witness: the log holds the welcome note, an upload note and a text entry.
C8_Witness ==
    /\ Len(messages) = 3
    /\ Len(uploadedFiles) = 1
    /\ CountLog({"text"}) = 1

\* C9: across every step the previous log is a prefix of the next log.
C9_LogAppendOnly ==
    [][/\ Len(messages) <= Len(messages')
       /\ SubSeq(messages', 1, Len(messages)) = messages]_vars

\* C9 witness: entries were appended after the welcome message, one of them
\* by a failed upload.
C9_Witness ==
    /\ Len(messages) = 3
    /\ messages[1] = WelcomeMessage
    /\ \E i \in 2..3 : messages[i].content[1] = "Failed to upload "

\* the step retains FileData d with the note of its successful upload
RetainsUploaded(d) ==
    /\ uploadedFiles' = Append(uploadedFiles, d)
    /\ messages' = Append(messages, Message("system", <<"File uploaded: ", d.name>>, "system"))
    /\ analytics' = [analytics EXCEPT !.filesProcessed = @ + 1]

\* C10: the retained collection changes only in the step in which an
\* upload_file call in flight ends, and every step in which an upload_file
\* call succeeds appends exactly that file, exactly one system message
\* naming it as uploaded, and adds exactly 1 to filesProcessed.
C10_RetainedOnlyOnSuccess ==
    [][/\ uploadedFiles' # uploadedFiles =>
             \E c \in BagToSet(calls) :
                /\ c.action = "upload_file"
                /\ calls' = BagRemove(calls, c)
                /\ RetainsUploaded(c.arg)
       /\ \A c \in BagToSet(calls) :
             handleFileUploadResume(c, TRUE) => RetainsUploaded(c.arg)]_vars

\* C10 witness: one upload was acknowledged and one failed; only the
\* acknowledged file is retained.
C10_Witness ==
    /\ Len(uploadedFiles) = 1
    /\ \E i \in DOMAIN messages : messages[i].content[1] = "File uploaded: "
    /\ \E i \in DOMAIN messages : messages[i].content[1] = "Failed to upload "

\* C11: when the upload_file call for a file fails, the file is not added to
\* the retained collection, no counter changes (filesProcessed included) and
\* exactly one system message naming the file is appended to the log.
C11_FailedUploadLogged ==
    [][\A c \in BagToSet(calls) :
          handleFileUploadResume(c, FALSE) =>
             /\ UNCHANGED <<uploadedFiles, analytics>>
             /\ AppendsSystemMessage
             /\ messages'[Len(messages')].content = <<"Failed to upload ", c.arg.name>>]_vars

\* C11 witness: the only upload made has failed: nothing is retained,
\* filesProcessed is 0 and the log ends with the note naming photo.png.
C11_Witness ==
    /\ nActions = 1
    /\ InFlight = 0
    /\ uploadedFiles = <<>>
    /\ analytics.filesProcessed = 0
    /\ Len(messages) = 2
    /\ messages[2].content = <<"Failed to upload ", "photo.png">>

\* some feature flag takes a new value in the step
FlagFlips ==
    \/ isMicEnabled' # isMicEnabled
    \/ isCameraEnabled' # isCameraEnabled
    \/ isScreenSharing' # isScreenSharing

\* C12: a completed toggle of the microphone, the camera or the screen share
\* leaves its flag at the flipped value, appends exactly one entry to the
\* log, a system message, and leaves the four counters unchanged.
C12_ToggleNotedOnce ==
    [][/\ FlagFlips => AppendsSystemMessage /\ UNCHANGED analytics
       /\ \A c \in BagToSet(calls) :
             handleScreenShareToggleResume(c, TRUE) =>
                /\ isScreenSharing' = c.arg
                /\ AppendsSystemMessage
                /\ UNCHANGED analytics]_vars

\* the step ends the flight of call c: its promise settles and its handler resumes
EndsFlight(c) == BagIn(c, calls) /\ calls' = BagRemove(calls, c)

\* C13: a dispatch whose response has not arrived when the timeout window
\* elapses resolves at that moment (it is no longer in flight), and the
\* response of an overdue dispatch changes neither the log, the retained
\* files, the feature flags nor the counters.
C13_LateResponseDiscarded ==
    [][\A c \in BagToSet(calls) :
          /\ TimeoutElapses(c) => ~BagIn([c EXCEPT !.overdue = TRUE], calls')
          /\ c.overdue /\ EndsFlight(c) =>
                UNCHANGED <<messages, uploadedFiles, isScreenSharing, isMicEnabled,
                            isCameraEnabled, analytics>>]_vars

\* C14: no file whose MIME type is outside the allow-set is being read
\* (encoded), is the argument of an upload_file call, or is retained.
C14_OnlyAllowedTypes ==
    /\ \A r \in BagToSet(reads) : r.file.type \in allowedFileTypes
    /\ \A c \in BagToSet(calls) :
          c.action = "upload_file" => c.arg.type \in allowedFileTypes
    /\ \A i \in DOMAIN uploadedFiles : uploadedFiles[i].type \in allowedFileTypes

\* m is the note of an acknowledged upload / of a failed upload
IsUploadedNote(m) == m.sender = "system" /\ m.content[1] = "File uploaded: "
IsFailedNote(m) == m.sender = "system" /\ m.content[1] = "Failed to upload "

\* C15: with several files in the pipeline at once and their reads and
\* calls completing in any order, every submitted file is either still in
\* flight or has exactly one outcome note in the log; the retained
\* collection holds exactly the acknowledged files, one entry each and in
\* the order of their notes, and filesProcessed is their number.
C15_NoLostUpload ==
    LET acked == SelectSeq(messages, IsUploadedNote)
        failed == SelectSeq(messages, IsFailedNote)
    IN /\ Len(acked) + Len(failed) + InFlight = nActions
       /\ Len(uploadedFiles) = Len(acked)
       /\ \A i \in DOMAIN uploadedFiles : acked[i].content[2] = uploadedFiles[i].name
       /\ \A i \in DOMAIN uploadedFiles :
             uploadedFiles[i] \in {FileDataOf(f) : f \in {g \in Files : g.size <= maxFileSize}}
       /\ analytics.filesProcessed = Len(acked)

\* C15 witness: two files went through the pipeline together and both were
\* acknowledged, tool.exe before photo.png.
C15_Witness ==
    /\ nActions = 2
    /\ InFlight = 0
    /\ Len(uploadedFiles) = 2
    /\ uploadedFiles[1].name = "tool.exe"
    /\ uploadedFiles[2].name = "photo.png"
    /\ analytics.filesProcessed = 2

\* number of 'Screen sharing started/stopped' notes in the log, one per
\* toggle_sharing call that succeeded
SharingNotes ==
    Cardinality({i \in DOMAIN messages : messages[i].content[1] = "Screen sharing "})

\* C16: once every toggle_sharing call issued has settled successfully,
\* whatever their overlap and the order of their settlements, isScreenSharing
\* equals the 'enabled' argument of the most recently issued call.
C16_FlagFollowsLatestToggle ==
    (/\ lastEnabled # <<>>
     /\ InFlight = 0
     /\ SharingNotes = nActions) => isScreenSharing = lastEnabled[1]

\* the step makes request r (connect or disconnect) on the client
Requests(r) == lastLifecycle' # lastLifecycle /\ lastLifecycle' = r

\* C17: connect() is never requested while the phase is 'connecting',
\* 'connected' or 'ready'; disconnect() is requested only while the phase is
\* 'connected' or 'ready'; a request leaves the displayed phase as it is,
\* and the phase changes only in a step of the transport.
C17_ButtonFollowsPhase ==
    [][/\ Requests("connect") =>
             /\ transportState \notin {"connecting", "connected", "ready"}
             /\ transportState' = transportState
       /\ Requests("disconnect") =>
             /\ transportState \in {"connected", "ready"}
             /\ transportState' = transportState
       /\ ConnectionStatusClick => transportState' = transportState
       /\ transportState' # transportState =>
             /\ \E p \in Phases : TransportEvent(p)
             /\ lastLifecycle' = lastLifecycle]_vars

\* C17 witness: disconnect() was requested while the phase was 'ready', and
\* the phase shown is still 'ready'.
C17_Witness ==
    /\ lastLifecycle = "disconnect"
    /\ transportState = "ready"

====
